---- MODULE Spec2Model ----
(***************************************************************************)
(* The look-tracking state machine of src/src/main.rs: the two Update      *)
(* systems happy_cube_update and sad_cube_update, the Cube component they  *)
(* mutate, the cube's rotation, and the CubeState / NextState pair that    *)
(* selects which of the two runs in a frame.                               *)
(*                                                                         *)
(* Numbers.  f32 angles are carried in fixed point, one unit = 1/64 of a   *)
(* degree, so that PI is 180 * 64 units; a product is exact and a quotient *)
(* is rounded to the nearest unit (Round), as an f32 operation rounds its  *)
(* result.  Time is carried in ticks of 125 ms.                            *)
(***************************************************************************)
EXTENDS Integers, FiniteSets, Sequences, TLC

VARIABLES
    state,          \* State<CubeState>: the state the frame's run conditions read
    next_state,     \* NextState<CubeState>: "Unchanged" or the pending state
    rotation,       \* cube_transform.rotation, as its YXZ angles [yaw, pitch, roll]
    rotate_timer,   \* Cube.rotate_timer: [duration, elapsed, finished]
    random_look_x,  \* Cube.random_look_x
    random_look_y,  \* Cube.random_look_y
    mouse_pos,      \* windows.single().cursor_position() of the current frame
    delta,          \* time.delta() of the current frame, in ticks
    pc,             \* position in the frame: "PreUpdate", "StateTransition", "Update"
    branch,         \* history: the match/if arm the last update system took
    prev_timer,     \* history: rotate_timer as the last update system found it
    since_reset,    \* history: what happened since the timer was last reset/replaced
    vary            \* how many more times the inputs may depart from the steady run

vars == <<state, next_state, rotation, rotate_timer, random_look_x, random_look_y,
          mouse_pos, delta, pc, branch, prev_timer, since_reset, vary>>

-----------------------------------------------------------------------------
(* Program constants, in model units.                                      *)

\* std::f32::consts::PI: 180 degrees of 64 units each.
PI == 11520
\* 2.6 rad, the inner edge of both idle yaw ranges (2.6 * 180 / pi * 64).
LookYawMin == 9534
\* 0.3 rad, the edge of the idle pitch range.
LookPitchMax == 1100
\* The divisor applied to the centred cursor offset before to_radians.
Sensitivity == 20
\* Timer::from_seconds(3.0, ..) of Cube::default, in ticks.
InitDuration == 24
\* rng.gen_range(0.5..3.0): the low end (included) and high end (excluded), in ticks.
DurMin == 4
DurMax == 24
\* Window { ..default() }: the primary window's default resolution.
Width == 1280
Height == 720
\* Res<Time> in Update is the virtual clock installed by DefaultPlugins, whose
\* delta is clamped to 250 ms: two ticks.
MaxDelta == 2

(* Bounds of the model.                                                    *)

\* Cursor positions tried: the window centre and CursorSteps steps of
\* (100, 40) pixels to either side of it.
CursorSteps == 1
\* A steady run keeps the cursor where the first frame found it, has every
\* frame last the full 250 ms, and draws DefaultDraw at every redraw.  A run
\* departs from that at most MaxVary times: a frame whose cursor sample
\* differs from the previous frame's, a shorter frame, or another draw.
MaxVary == 1

\* Option<Vec2>: None, or Some(position).
None == [some |-> FALSE]

CursorPositions ==
    { [some |-> TRUE, x |-> Width \div 2 + k * 100, y |-> Height \div 2 + k * 40] :
        k \in -CursorSteps..CursorSteps }

MousePositions == {None} \cup CursorPositions

Deltas == 0..MaxDelta

-----------------------------------------------------------------------------
(* Arithmetic.                                                             *)

\* n / d rounded to the nearest unit (d > 0).
Round(n, d) == (2 * n + d) \div (2 * d)

\* f32::to_radians of (px / 20.0): degrees * PI / 180.
ToRadians(px) == Round(px * PI, 180 * Sensitivity)

\* Mutant: the two weights exchanged, self * t + rhs * (1 - t).
Lerp_Swapped(self, rhs, num, den) == Round(self * num + rhs * (den - num), den)

\* VectorSpace::lerp for f32 with t = num / den: self * (1 - t) + rhs * t.
Lerp(self, rhs, num, den) == Round(self * (den - num) + rhs * num, den)

\* Quat::to_euler(EulerRot::YXZ) of Qy(yaw) * Qx(pitch): the yaw comes back
\* from atan2, in (-PI, PI]; the pitch from asin, unchanged while |pitch| < PI/2.
WrapYaw(a) == ((a + PI - 1) % (2 * PI)) - PI + 1

to_euler(r) == [yaw |-> WrapYaw(r.yaw), pitch |-> r.pitch, roll |-> r.roll]

-----------------------------------------------------------------------------
(* bevy Timer in TimerMode::Once, as the two systems use it.               *)

TimerFromSeconds(d) == [duration |-> d, elapsed |-> 0, finished |-> FALSE]

\* Mutant: reset() that rewinds the stopwatch but leaves the finished flag.
TimerReset_KeepsFinished(t) == [t EXCEPT !.elapsed = 0]

TimerReset(t) == [t EXCEPT !.elapsed = 0, !.finished = FALSE]

\* Mutant: tick() that does not clamp the elapsed time to the duration.
TimerTick_NoClamp(t, dt) ==
    IF t.finished THEN t
    ELSE [t EXCEPT !.elapsed = t.elapsed + dt,
                   !.finished = (t.elapsed + dt >= t.duration)]

TimerTick(t, dt) ==
    IF t.finished THEN t
    ELSE IF t.elapsed + dt >= t.duration
         THEN [t EXCEPT !.elapsed = t.duration, !.finished = TRUE]
         ELSE [t EXCEPT !.elapsed = t.elapsed + dt]

-----------------------------------------------------------------------------
(* The random source of sad_cube_update.  A draw is the triple the redraw  *)
(* arm samples: the yaw from one of the two ranges gen_bool chooses        *)
(* between, the pitch, and the duration of the new timer.  Each half-open  *)
(* range is sampled at its two ends.                                       *)

\* Mutant: the second range written gen_range(-PI..2.6).
YawDraws_SignSlip == {LookYawMin, PI - 1} \cup {-PI, LookYawMin - 1}

YawDraws == {LookYawMin, PI - 1} \cup {-PI, -LookYawMin - 1}

PitchDraws == {-LookPitchMax, LookPitchMax - 1}

\* Mutant: the duration range written gen_range(0.0..3.0).
DurationDraws_FromZero == {0, DurMax - 1}

DurationDraws == {DurMin, DurMax - 1}

Draws == [y : YawDraws, x : PitchDraws, d : DurationDraws]

DefaultDraw == [y |-> LookYawMin, x |-> -LookPitchMax, d |-> DurMin]

-----------------------------------------------------------------------------
(* The two systems, as functions of the cube they find and the frame's     *)
(* inputs.  c is [rotation, rotate_timer, random_look_x, random_look_y,    *)
(* next_state]; the result has the same fields and the arm taken.          *)

Cube == [rotation |-> rotation, rotate_timer |-> rotate_timer,
         random_look_x |-> random_look_x, random_look_y |-> random_look_y,
         next_state |-> next_state]

\* Mutant: the cursor's x taken from the window's corner instead of its centre.
TargetYaw_NoCentre(position) == ToRadians(position.x)

\* The cursor target of the Happy state: centred offset / 20, degrees to radians.
TargetYaw(position) == ToRadians(position.x - Width \div 2)
TargetPitch(position) == ToRadians(position.y - Height \div 2)

\* Mutant: the comparison written <= instead of <.
MirrorYaw_Le(cube_rot_y) == IF cube_rot_y <= 0 THEN cube_rot_y + PI ELSE cube_rot_y - PI

\* cube_rot_y + PI if cube_rot_y < 0, else cube_rot_y - PI.
MirrorYaw(cube_rot_y) == IF cube_rot_y < 0 THEN cube_rot_y + PI ELSE cube_rot_y - PI

\* The four values both systems bind before the match: the cube's YXZ angles.
CubeRot(c) == to_euler(c.rotation)

\* Mutant: the completion fraction read before the tick instead of after it.
HappyLerp_TickAfter(c, position, dt) ==
    LET ticked == TimerTick(c.rotate_timer, dt)
    IN  [c EXCEPT
            !.rotate_timer = ticked,
            !.rotation =
                [yaw |-> Lerp(CubeRot(c).yaw, TargetYaw(position),
                              c.rotate_timer.elapsed, c.rotate_timer.duration),
                 pitch |-> Lerp(CubeRot(c).pitch, TargetPitch(position),
                                c.rotate_timer.elapsed, c.rotate_timer.duration),
                 roll |-> 0]]
        @@ [branch |-> "happy_lerp"]

\* Some(position), timer not finished: tick, then ease towards the cursor target.
HappyLerp(c, position, dt) ==
    LET ticked == TimerTick(c.rotate_timer, dt)
    IN  [c EXCEPT
            !.rotate_timer = ticked,
            !.rotation =
                [yaw |-> Lerp(CubeRot(c).yaw, TargetYaw(position),
                              ticked.elapsed, ticked.duration),
                 pitch |-> Lerp(CubeRot(c).pitch, TargetPitch(position),
                                ticked.elapsed, ticked.duration),
                 roll |-> 0]]
        @@ [branch |-> "happy_lerp"]

\* Mutant: the snap arm also resets the timer.
HappySnap_Resets(c, position) ==
    [c EXCEPT
        !.rotate_timer = TimerReset(c.rotate_timer),
        !.rotation = [yaw |-> TargetYaw(position),
                      pitch |-> TargetPitch(position),
                      roll |-> 0]]
    @@ [branch |-> "happy_snap"]

\* Some(position), timer finished: the rotation is set to the cursor target.
HappySnap(c, position) ==
    [c EXCEPT
        !.rotation = [yaw |-> TargetYaw(position),
                      pitch |-> TargetPitch(position),
                      roll |-> 0]]
    @@ [branch |-> "happy_snap"]

\* None: reset the timer, store the mirrored orientation, request Sad.
HappyLeave(c) ==
    [c EXCEPT
        !.rotate_timer = TimerReset(c.rotate_timer),
        !.random_look_x = -CubeRot(c).pitch,
        !.random_look_y = MirrorYaw(CubeRot(c).yaw),
        !.next_state = "Sad"]
    @@ [branch |-> "happy_leave"]

happy_cube_update(c, mouse, dt) ==
    IF mouse # None
    THEN IF ~c.rotate_timer.finished
         THEN HappyLerp(c, mouse, dt)
         ELSE HappySnap(c, mouse)
    ELSE HappyLeave(c)

\* Mutant: the two idle targets exchanged, yaw eased to random_look_x and
\* pitch to random_look_y.
SadLerp_AxesSwapped(c, dt) ==
    LET ticked == TimerTick(c.rotate_timer, dt)
    IN  [c EXCEPT
            !.rotate_timer = ticked,
            !.rotation =
                [yaw |-> Lerp(CubeRot(c).yaw, c.random_look_x,
                              ticked.elapsed, ticked.duration),
                 pitch |-> Lerp(CubeRot(c).pitch, c.random_look_y,
                                ticked.elapsed, ticked.duration),
                 roll |-> 0]]
        @@ [branch |-> "sad_lerp"]

\* Mutant: the interpolation without the tick of the timer.
SadLerp_NoTick(c, dt) ==
    [c EXCEPT
        !.rotation =
            [yaw |-> Lerp(CubeRot(c).yaw, c.random_look_y,
                          c.rotate_timer.elapsed, c.rotate_timer.duration),
             pitch |-> Lerp(CubeRot(c).pitch, c.random_look_x,
                            c.rotate_timer.elapsed, c.rotate_timer.duration),
             roll |-> 0]]
    @@ [branch |-> "sad_lerp"]

\* None, timer not finished: tick, then ease towards the idle target.
SadLerp(c, dt) ==
    LET ticked == TimerTick(c.rotate_timer, dt)
    IN  [c EXCEPT
            !.rotate_timer = ticked,
            !.rotation =
                [yaw |-> Lerp(CubeRot(c).yaw, c.random_look_y,
                              ticked.elapsed, ticked.duration),
                 pitch |-> Lerp(CubeRot(c).pitch, c.random_look_x,
                                ticked.elapsed, ticked.duration),
                 roll |-> 0]]
        @@ [branch |-> "sad_lerp"]

\* Mutant: the redraw also turns the cube to the new target.
SadRedraw_Snaps(c, draw) ==
    [c EXCEPT
        !.random_look_y = draw.y,
        !.random_look_x = draw.x,
        !.rotation = [yaw |-> draw.y, pitch |-> draw.x, roll |-> 0],
        !.rotate_timer = TimerFromSeconds(draw.d)]
    @@ [branch |-> "sad_redraw"]

\* None, timer finished: a new idle target and a new timer.
SadRedraw(c, draw) ==
    [c EXCEPT
        !.random_look_y = draw.y,
        !.random_look_x = draw.x,
        !.rotate_timer = TimerFromSeconds(draw.d)]
    @@ [branch |-> "sad_redraw"]

\* Mutant: the Some(_) arm installs a new 0.5 s timer instead of resetting.
SadReturn_NewTimer(c) ==
    [c EXCEPT
        !.rotate_timer = TimerFromSeconds(DurMin),
        !.next_state = "Happy"]
    @@ [branch |-> "sad_return"]

\* Mutant: the Some(_) arm without next_state.set(CubeState::Happy).
SadReturn_NoRequest(c) ==
    [c EXCEPT !.rotate_timer = TimerReset(c.rotate_timer)]
    @@ [branch |-> "sad_return"]

\* Some(_): reset the timer, request Happy.
SadReturn(c) ==
    [c EXCEPT
        !.rotate_timer = TimerReset(c.rotate_timer),
        !.next_state = "Happy"]
    @@ [branch |-> "sad_return"]

\* Mutant: the finished() test of the None arm inverted.
sad_cube_update_Inverted(c, mouse, dt, draw) ==
    IF mouse = None
    THEN IF c.rotate_timer.finished
         THEN SadLerp(c, dt)
         ELSE SadRedraw(c, draw)
    ELSE SadReturn(c)

sad_cube_update(c, mouse, dt, draw) ==
    IF mouse = None
    THEN IF ~c.rotate_timer.finished
         THEN SadLerp(c, dt)
         ELSE SadRedraw(c, draw)
    ELSE SadReturn(c)

-----------------------------------------------------------------------------
(* History kept for stating properties: the orientation held when the      *)
(* timer was last reset or replaced and the arm that did it, the cursor    *)
(* positions seen by the interpolating Happy frames since, and how many    *)
(* interpolating frames with a positive delta have run since (counted to   *)
(* 2).                                                                     *)

SinceReset(h, r, mouse, dt) ==
    IF r.branch \in {"happy_leave", "sad_return", "sad_redraw"}
    THEN [by |-> r.branch, rot |-> r.rotation, seen |-> {}, n |-> 0]
    ELSE IF r.branch \in {"happy_lerp", "sad_lerp"}
    THEN [h EXCEPT
            !.seen = IF mouse = None THEN h.seen ELSE h.seen \cup {mouse},
            !.n = IF dt > 0 /\ h.n < 2 THEN h.n + 1 ELSE h.n]
    ELSE h

-----------------------------------------------------------------------------
(* The frame.  Each pass of the Main schedule samples the window and the   *)
(* clock, applies a pending NextState, and runs the Update systems whose   *)
(* run condition holds.                                                    *)

Init ==
    /\ state = "Happy"
    /\ next_state = "Unchanged"
    /\ rotation = [yaw |-> 0, pitch |-> 0, roll |-> 0]
    /\ rotate_timer = TimerFromSeconds(InitDuration)
    /\ random_look_x = 0
    /\ random_look_y = 0
    /\ mouse_pos = None
    /\ delta = 0
    /\ pc = "PreUpdate"
    /\ branch = "none"
    /\ prev_timer = TimerFromSeconds(InitDuration)
    /\ since_reset = [by |-> "none", rot |-> [yaw |-> 0, pitch |-> 0, roll |-> 0],
                      seen |-> {}, n |-> 0]
    /\ vary = MaxVary

\* The window and time plugins publish this frame's cursor position and delta.
SampleInputs ==
    /\ pc = "PreUpdate"
    /\ \E m \in MousePositions, dt \in Deltas :
          LET moved == IF branch # "none" /\ m # mouse_pos THEN 1 ELSE 0
              slowed == IF dt < MaxDelta THEN 1 ELSE 0
          IN  /\ moved + slowed <= vary
              /\ mouse_pos' = m
              /\ delta' = dt
              /\ vary' = vary - (moved + slowed)
    /\ pc' = "StateTransition"
    /\ UNCHANGED <<state, next_state, rotation, rotate_timer, random_look_x,
                   random_look_y, branch, prev_timer, since_reset>>

\* The StateTransition schedule: a pending NextState becomes the State.
ApplyStateTransition ==
    /\ pc = "StateTransition"
    /\ state' = IF next_state = "Unchanged" THEN state ELSE next_state
    /\ next_state' = "Unchanged"
    /\ pc' = "Update"
    /\ UNCHANGED <<rotation, rotate_timer, random_look_x, random_look_y,
                   mouse_pos, delta, branch, prev_timer, since_reset, vary>>

Store(r) ==
    /\ rotation' = r.rotation
    /\ rotate_timer' = r.rotate_timer
    /\ random_look_x' = r.random_look_x
    /\ random_look_y' = r.random_look_y
    /\ next_state' = r.next_state
    /\ branch' = r.branch
    /\ prev_timer' = rotate_timer
    /\ since_reset' = SinceReset(since_reset, r, mouse_pos, delta)
    /\ pc' = "PreUpdate"
    /\ UNCHANGED <<state, mouse_pos, delta>>

\* happy_cube_update.run_if(in_state(CubeState::Happy))
RunHappyCubeUpdate ==
    /\ pc = "Update"
    /\ state = "Happy"
    /\ Store(happy_cube_update(Cube, mouse_pos, delta))
    /\ UNCHANGED vary

\* Mutant: sad_cube_update added without its run condition.
RunSadCubeUpdate_Always ==
    /\ pc = "Update"
    /\ \E draw \in (IF vary > 0 THEN Draws ELSE {DefaultDraw}) :
          LET r == sad_cube_update(Cube, mouse_pos, delta, draw)
          IN  /\ Store(r)
              /\ vary' = IF r.branch = "sad_redraw" /\ draw # DefaultDraw
                          THEN vary - 1 ELSE vary

\* sad_cube_update.run_if(in_state(CubeState::Sad))
RunSadCubeUpdate ==
    /\ pc = "Update"
    /\ state = "Sad"
    /\ \E draw \in (IF vary > 0 THEN Draws ELSE {DefaultDraw}) :
          LET r == sad_cube_update(Cube, mouse_pos, delta, draw)
          IN  /\ Store(r)
              /\ vary' = IF r.branch = "sad_redraw" /\ draw # DefaultDraw
                          THEN vary - 1 ELSE vary

Next ==
    \/ SampleInputs
    \/ ApplyStateTransition
    \/ RunHappyCubeUpdate
    \/ RunSadCubeUpdate

Spec == Init /\ [][Next]_vars

\* The app runner never stops scheduling frames.
FairSpec == Spec /\ WF_vars(Next)

TypeOK ==
    /\ state \in {"Happy", "Sad"}
    /\ next_state \in {"Unchanged", "Happy", "Sad"}
    /\ rotation.yaw \in -PI..PI
    /\ 2 * rotation.pitch \in -PI..PI
    /\ rotation.roll = 0
    /\ rotate_timer.elapsed \in 0..rotate_timer.duration
    /\ mouse_pos \in MousePositions
    /\ delta \in Deltas
    /\ pc \in {"PreUpdate", "StateTransition", "Update"}

-----------------------------------------------------------------------------
(* Properties.                                                             *)

\* The end of a frame: an update system has just run; state, mouse_pos and
\* delta are still the ones it ran with, next_state is what it requested.
FrameEnd == pc = "PreUpdate" /\ branch # "none"

\* What a frame run in state s with cursor sample m requests.
Requested(s, m) ==
    IF s = "Happy" /\ m = None THEN "Sad"
    ELSE IF s = "Sad" /\ m # None THEN "Happy"
    ELSE "Unchanged"

C1Step ==
    /\ pc = "PreUpdate" => state' = state /\ next_state' = next_state
    /\ pc = "StateTransition" =>
          state' = (IF next_state = "Unchanged" THEN state ELSE next_state)
    /\ pc = "Update" =>
          /\ state' = state
          /\ next_state = "Unchanged"
          /\ next_state' = Requested(state, mouse_pos)

\* C1: the look state starts Happy and changes only by Happy -> Sad after a
\* Happy frame with the cursor absent and Sad -> Happy after a Sad frame with
\* the cursor present; what a frame requests is a function of the state and
\* the cursor's presence alone; the machine always has a next step.
C1_Transitions ==
    /\ state = "Happy"
    /\ [][C1Step]_vars
    /\ [](ENABLED Next)

\* C1 witness: a frame is about to run in Happy because the previous frame,
\* run in Sad, saw the cursor.
C1_Witness == pc = "Update" /\ state = "Happy" /\ branch = "sad_return"

\* C2: from the frame that requests a transition until the first update of
\* the new state runs, the rotate timer has zero elapsed time and is not
\* finished, and that first update runs in the requested state.
C2_TransitionResetsTimer ==
    branch \in {"happy_leave", "sad_return"} =>
        /\ rotate_timer.elapsed = 0
        /\ ~rotate_timer.finished
        /\ pc = "Update" => state = (IF branch = "happy_leave" THEN "Sad" ELSE "Happy")

\* C2 witness: the first Sad frame is about to run on a reset timer that the
\* leaving Happy frame had found finished.
C2_Witness ==
    /\ pc = "Update" /\ state = "Sad" /\ branch = "happy_leave"
    /\ prev_timer.finished /\ prev_timer.elapsed > 0
    /\ rotate_timer.elapsed = 0

\* The cursor target computed from the claim's formula: a is (px / 20)
\* degrees, to the nearest angle unit.
IsDegrees(a, px) ==
    LET err == a * 180 * 20 - px * PI
    IN  -(180 * 20) <= 2 * err /\ 2 * err <= 180 * 20

\* C3: at the end of every Happy frame with the cursor present and the timer
\* finished, the frame that finishes it included, the orientation is the
\* cursor target of that frame's cursor position, with roll 0.
C3_HappyTracksTarget ==
    (FrameEnd /\ state = "Happy" /\ mouse_pos # None /\ rotate_timer.finished) =>
        /\ IsDegrees(rotation.yaw, mouse_pos.x - Width \div 2)
        /\ IsDegrees(rotation.pitch, mouse_pos.y - Height \div 2)
        /\ rotation.roll = 0

\* C3 witness: the frame whose tick finished the timer, after an ease during
\* which the cursor moved, ending off centre.
C3_Witness ==
    /\ FrameEnd /\ state = "Happy" /\ branch = "happy_lerp"
    /\ rotate_timer.finished
    /\ Cardinality(since_reset.seen) > 1
    /\ mouse_pos.x # Width \div 2

\* The controller called once more at the end of a frame, with the same
\* state and cursor sample and a delta of zero.
SecondCall(draw) ==
    IF state = "Happy"
    THEN happy_cube_update(Cube, mouse_pos, 0)
    ELSE sad_cube_update(Cube, mouse_pos, 0, draw)

\* The second call changed nothing: same orientation, timer, idle target and
\* request, and it drew nothing.
NoChange(r) ==
    /\ to_euler(r.rotation) = to_euler(rotation)
    /\ r.rotate_timer = rotate_timer
    /\ r.random_look_x = random_look_x
    /\ r.random_look_y = random_look_y
    /\ r.next_state = next_state
    /\ r.branch # "sad_redraw"

\* C4 as stated: at the end of every frame a second call with zero delta
\* changes nothing and draws nothing.
C4_Idempotent ==
    FrameEnd => \A draw \in Draws : NoChange(SecondCall(draw))

\* C4 amended: a second call with zero delta changes nothing and draws
\* nothing when the first call left the timer at zero elapsed time (a
\* transition request, a redraw, a zero-delta tick of a fresh timer) or, in
\* Happy, finished.
C4_IdempotentAtRest ==
    (FrameEnd /\ (rotate_timer.elapsed = 0 \/ (state = "Happy" /\ rotate_timer.finished))) =>
        \A draw \in Draws : NoChange(SecondCall(draw))

\* C4 witness: a redraw has just installed a fresh timer while the cube is
\* away from the new idle target.
C4_Witness ==
    /\ FrameEnd /\ branch = "sad_redraw"
    /\ rotation.yaw # random_look_y
    /\ rotate_timer.elapsed = 0

\* x is halfway between a and b, to the nearest angle unit.
Halfway(x, a, b) == 2 * x - (a + b) \in -1..1

\* A Happy frame of positive delta has brought the accumulated delta since
\* the last Sad -> Happy reset to half the duration, the cursor having
\* stayed put.
HalfTime ==
    /\ FrameEnd /\ state = "Happy" /\ branch = "happy_lerp"
    /\ delta > 0
    /\ since_reset.by = "sad_return"
    /\ since_reset.seen = {mouse_pos}
    /\ 2 * rotate_timer.elapsed = rotate_timer.duration

HalfwayThere ==
    /\ Halfway(rotation.yaw, to_euler(since_reset.rot).yaw,
               ToRadians(mouse_pos.x - Width \div 2))
    /\ Halfway(rotation.pitch, to_euler(since_reset.rot).pitch,
               ToRadians(mouse_pos.y - Height \div 2))

\* C5 as stated: at half time the orientation is halfway between the
\* orientation held at the reset and the cursor target, however the delta
\* was split across frames.
C5_HalfwayAnySplit == HalfTime => HalfwayThere

\* C5 amended: the orientation is halfway at the end of the frame that
\* reaches half time when the whole d/2 arrived in that one frame (frames of
\* zero delta before it aside).
C5_HalfwayOneFrame == (HalfTime /\ since_reset.n = 1) => HalfwayThere

\* C5 witness: one frame of d/2 after a reset, with the cube away from the
\* cursor target at the reset.
C5_Witness ==
    /\ HalfTime /\ since_reset.n = 1
    /\ delta = MaxDelta
    /\ to_euler(since_reset.rot).yaw # ToRadians(mouse_pos.x - Width \div 2)
    /\ rotation # since_reset.rot

\* a is outside the open interval (-2.6, 2.6) and inside [-PI, PI).
LooksAway(a) ==
    \/ LookYawMin <= a /\ a < PI
    \/ -PI <= a /\ a < -LookYawMin

\* C6: the yaw target a redraw stores is in [2.6, PI) or in [-PI, -2.6).
C6_RedrawnYawLooksAway == branch = "sad_redraw" => LooksAway(random_look_y)

\* C6 witness: a redraw stored a yaw target from the negative range.
C6_Witness == FrameEnd /\ branch = "sad_redraw" /\ random_look_y < -LookYawMin

\* x is a moved from a towards b by num / den, to the nearest angle unit.
Eased(x, a, b, num, den) ==
    LET err == x * den - (a * (den - num) + b * num)
    IN  -den <= 2 * err /\ 2 * err <= den

C7Step ==
    /\ (pc = "Update" /\ state = "Sad" /\ mouse_pos = None /\ rotate_timer.finished) =>
          /\ branch' = "sad_redraw"
          /\ LooksAway(random_look_y')
          /\ -LookPitchMax <= random_look_x' /\ random_look_x' < LookPitchMax
          /\ DurMin <= rotate_timer'.duration /\ rotate_timer'.duration < DurMax
          /\ rotate_timer'.elapsed = 0
          /\ ~rotate_timer'.finished
          /\ rotation' = rotation
    /\ (pc = "Update" /\ state = "Sad" /\ mouse_pos = None /\ branch = "sad_redraw") =>
          /\ branch' = "sad_lerp"
          /\ rotate_timer'.elapsed = delta
          /\ delta < rotate_timer'.duration
          /\ ~rotate_timer'.finished
          /\ Eased(rotation'.yaw, to_euler(rotation).yaw, random_look_y,
                   delta, rotate_timer'.duration)
          /\ Eased(rotation'.pitch, to_euler(rotation).pitch, random_look_x,
                   delta, rotate_timer'.duration)

\* C7: a Sad frame with the cursor absent that starts on a finished timer
\* stores a new idle target and a new timer (sampled duration, nothing
\* elapsed, not finished) and leaves the orientation alone; the next Sad
\* frame eases by t = delta / duration < 1 from there.
C7_RedrawRestartsEase == [][C7Step]_vars

\* C7 witness: the frame after a redraw has eased the cube part of the way
\* to the new idle target.
C7_Witness ==
    /\ FrameEnd /\ branch = "sad_lerp"
    /\ since_reset.by = "sad_redraw" /\ since_reset.n = 1
    /\ rotate_timer.elapsed = delta /\ delta > 0
    /\ rotation # since_reset.rot
    /\ rotation.yaw # random_look_y

\* C8: the Happy frame that finds the cursor absent stores the mirrored
\* orientation: random_look_x = -pitch, random_look_y = yaw + PI for yaw < 0
\* and yaw - PI otherwise, PI away from the yaw and inside [-PI, PI).
C8_LeaveMirrorsOrientation ==
    branch = "happy_leave" =>
        LET yaw == to_euler(rotation).yaw
            pitch == to_euler(rotation).pitch
        IN  /\ -PI <= yaw /\ yaw <= PI
            /\ random_look_x = -pitch
            /\ random_look_y = (IF yaw < 0 THEN yaw + PI ELSE yaw - PI)
            /\ (random_look_y - yaw = PI \/ yaw - random_look_y = PI)
            /\ -PI <= random_look_y /\ random_look_y < PI

\* C8 witness: the cursor left while the cube was turned to a negative yaw
\* and a non-zero pitch.
C8_Witness ==
    /\ FrameEnd /\ branch = "happy_leave"
    /\ rotation.yaw < 0 /\ rotation.pitch # 0
    /\ random_look_y = rotation.yaw + PI

\* C9: in every interpolating frame the completion fraction
\* t = elapsed / duration, read after the tick, satisfies 0 <= t <= 1.
C9_FractionInUnitInterval ==
    (FrameEnd /\ branch \in {"happy_lerp", "sad_lerp"}) =>
        /\ rotate_timer.duration > 0
        /\ 0 <= rotate_timer.elapsed
        /\ rotate_timer.elapsed <= rotate_timer.duration

\* C9 witness: a tick by more than the time that remained.
C9_Witness ==
    /\ FrameEnd /\ branch \in {"happy_lerp", "sad_lerp"}
    /\ prev_timer.elapsed + delta > prev_timer.duration
    /\ rotate_timer.elapsed = rotate_timer.duration

\* From some frame on the cursor is absent and every delta is positive.
AbsentForever == <>[](mouse_pos = None /\ delta > 0)

Redrawn == FrameEnd /\ branch = "sad_redraw"

FinishedAtTarget ==
    /\ FrameEnd /\ branch = "sad_lerp" /\ rotate_timer.finished
    /\ rotation.yaw = random_look_y /\ rotation.pitch = random_look_x

\* C10: while the cursor stays absent and every frame has a positive delta,
\* the timer finishes with the cube at the idle target, and a redraw
\* follows, again and again.
C10_IdleCycleNeverStalls ==
    AbsentForever => ([]<>FinishedAtTarget /\ []<>Redrawn)

\* C10 witness: a redraw at the end of a full idle cycle, the cube resting at
\* the target the previous redraw drew.
C10_Witness ==
    /\ Redrawn /\ state = "Sad"
    /\ rotation.yaw = DefaultDraw.y /\ rotation.pitch = DefaultDraw.x
    /\ prev_timer.finished /\ prev_timer.duration = DefaultDraw.d

\* From some frame on the cursor is present and every delta is positive.
PresentForever == <>[](mouse_pos # None /\ delta > 0)

\* A finished timer in Happy is left as it is by every step except the
\* update of a frame that finds the cursor absent.
C11Step ==
    (state = "Happy" /\ rotate_timer.finished /\ ~(pc = "Update" /\ mouse_pos = None)) =>
        rotate_timer' = rotate_timer

\* C11: while the cursor stays present and every frame has a positive delta
\* the Happy timer finishes and from then on stays finished; a finished
\* Happy timer is neither ticked, reset nor replaced until a frame observes
\* the cursor absent.
C11_HappyTimerFinishesOnce ==
    /\ PresentForever => <>[](state = "Happy" /\ rotate_timer.finished)
    /\ [][C11Step]_vars

\* C11 witness: after the cursor's return and the ease that followed, a
\* rigid-tracking frame has run on the timer the ease finished.
C11_Witness ==
    /\ FrameEnd /\ state = "Happy" /\ branch = "happy_snap"
    /\ since_reset.by = "sad_return" /\ since_reset.n > 0
    /\ prev_timer.finished /\ rotate_timer = prev_timer

\* x is a + (b - a) * num / den, to the nearest angle unit.
MovedByFraction(x, a, b, num, den) ==
    LET err == (x - a) * den - (b - a) * num
    IN  -den <= 2 * err /\ 2 * err <= den

\* The elapsed time after a tick by dt of a timer that was not finished.
Ticked(t, dt) == IF t.elapsed + dt < t.duration THEN t.elapsed + dt ELSE t.duration

C12Step ==
    (pc = "Update" /\ ~rotate_timer.finished) =>
        /\ (state = "Happy" /\ mouse_pos # None) =>
              /\ rotate_timer'.elapsed = Ticked(rotate_timer, delta)
              /\ rotate_timer'.duration = rotate_timer.duration
              /\ MovedByFraction(rotation'.yaw, to_euler(rotation).yaw,
                                 ToRadians(mouse_pos.x - Width \div 2),
                                 rotate_timer'.elapsed, rotate_timer'.duration)
              /\ MovedByFraction(rotation'.pitch, to_euler(rotation).pitch,
                                 ToRadians(mouse_pos.y - Height \div 2),
                                 rotate_timer'.elapsed, rotate_timer'.duration)
              /\ rotation'.roll = 0
        /\ (state = "Sad" /\ mouse_pos = None) =>
              /\ rotate_timer'.elapsed = Ticked(rotate_timer, delta)
              /\ rotate_timer'.duration = rotate_timer.duration
              /\ MovedByFraction(rotation'.yaw, to_euler(rotation).yaw, random_look_y,
                                 rotate_timer'.elapsed, rotate_timer'.duration)
              /\ MovedByFraction(rotation'.pitch, to_euler(rotation).pitch, random_look_x,
                                 rotate_timer'.elapsed, rotate_timer'.duration)
              /\ rotation'.roll = 0

\* C12: a frame that starts on an unfinished timer (Happy with the cursor
\* present, Sad with it absent) ticks the timer by the frame's delta and then
\* moves each angle from its current value towards the state's target by
\* t = elapsed after the tick / duration: new = current + (target - current) * t,
\* the target being the cursor angles in Happy and (random_look_x,
\* random_look_y) in Sad; the roll stays 0.
C12_EaseByFractionAfterTick == [][C12Step]_vars

\* C12 witness: a Sad frame has eased the cube part of the way to an idle
\* target whose yaw and pitch differ, with the timer part elapsed.
C12_Witness ==
    /\ FrameEnd /\ state = "Sad" /\ branch = "sad_lerp"
    /\ 0 < rotate_timer.elapsed /\ rotate_timer.elapsed < rotate_timer.duration
    /\ rotate_timer.elapsed = prev_timer.elapsed + delta
    /\ rotation.yaw # random_look_y /\ rotation.pitch # random_look_x
    /\ rotation.yaw # rotation.pitch

HappyArms == {"happy_lerp", "happy_snap", "happy_leave"}
SadArms == {"sad_lerp", "sad_redraw", "sad_return"}

C13Step ==
    /\ pc = "Update" =>
          /\ pc' = "PreUpdate"
          /\ state' = state
          /\ state = "Happy" => branch' \in HappyArms
          /\ state = "Sad" => branch' \in SadArms
    /\ pc # "Update" =>
          UNCHANGED <<rotation, rotate_timer, random_look_x, random_look_y, branch>>
    /\ state' # state => pc = "StateTransition" /\ state' = next_state
    /\ pc = "PreUpdate" => pc' = "StateTransition" /\ next_state' = next_state
    /\ pc = "StateTransition" => pc' = "Update"

\* C13: every frame runs exactly one update system, the one whose state is
\* the look state at the start of the frame; the cube is written by that
\* system alone; the state does not change during the update, and a
\* transition an update requests is applied only by the next frame's
\* StateTransition step.
C13_OneSystemPerFrame == [][C13Step]_vars

\* C13 witness: sad_cube_update has run and requested Happy; the frame ends
\* still in Sad with the request pending.
C13_Witness ==
    /\ FrameEnd /\ state = "Sad" /\ branch \in SadArms
    /\ next_state = "Happy"

\* C14: the rotate timer's duration is the initial 3.0 s or a value of
\* [0.5, 3.0) s, never zero, in every state and so at every division
\* elapsed / duration.
C14_DurationNeverZero ==
    /\ rotate_timer.duration # 0
    /\ \/ rotate_timer.duration = InitDuration
       \/ DurMin <= rotate_timer.duration /\ rotate_timer.duration < DurMax

\* C14 witness: an interpolating frame has divided by a duration drawn from
\* the top of the range.
C14_Witness ==
    /\ FrameEnd /\ branch = "sad_lerp"
    /\ rotate_timer.duration = DurMax - 1
    /\ rotate_timer.elapsed > 0

C15Step ==
    /\ (pc = "Update" /\ state = "Happy" /\ mouse_pos = None) =>
          /\ next_state' = "Sad"
          /\ rotation' = rotation
          /\ rotate_timer'.duration = rotate_timer.duration
    /\ (pc = "Update" /\ state = "Sad" /\ mouse_pos # None) =>
          /\ next_state' = "Happy"
          /\ rotation' = rotation
          /\ random_look_x' = random_look_x
          /\ random_look_y' = random_look_y
          /\ rotate_timer'.duration = rotate_timer.duration

\* C15: the Happy frame that requests Sad leaves the orientation and the
\* timer's duration as they were; the Sad frame that requests Happy leaves
\* the orientation, random_look_x, random_look_y and the timer's duration
\* as they were, so the Happy ease after the cursor's return runs on the
\* duration the timer already had.
C15_TransitionFrameEffect == [][C15Step]_vars

\* C15 witness: the Happy ease after the cursor's return runs on a duration
\* sampled in Sad.
C15_Witness ==
    /\ FrameEnd /\ state = "Happy" /\ branch = "happy_lerp"
    /\ since_reset.by = "sad_return"
    /\ rotate_timer.duration = DefaultDraw.d
    /\ rotate_timer.duration # InitDuration

C16Step ==
    /\ (pc = "Update" /\ ~(state = "Sad" /\ mouse_pos = None /\ rotate_timer.finished)) =>
          /\ branch' # "sad_redraw"
          /\ rotate_timer'.duration = rotate_timer.duration
          /\ ~(state = "Happy" /\ mouse_pos = None) =>
                /\ random_look_x' = random_look_x
                /\ random_look_y' = random_look_y
    /\ (pc = "Update" /\ branch' = "sad_redraw") =>
          /\ branch = "sad_lerp"
          /\ ~prev_timer.finished
          /\ rotate_timer.finished
    /\ pc # "Update" =>
          /\ random_look_x' = random_look_x
          /\ random_look_y' = random_look_y
          /\ rotate_timer' = rotate_timer

\* C16: idle targets and durations are drawn only by a Sad frame with the
\* cursor absent that starts on a finished timer; Happy frames with the
\* cursor present and Sad frames on an unfinished timer leave random_look_x,
\* random_look_y and the duration alone; and every redraw directly follows
\* an interpolating Sad frame that finished the timer, so two redraws never
\* run back to back.
C16_DrawOnlyOnFinishedSadTimer == [][C16Step]_vars

\* C16 witness: the frame after a redraw has finished the newly installed
\* timer, so the next frame may draw again.
C16_Witness ==
    /\ FrameEnd /\ state = "Sad" /\ branch = "sad_lerp"
    /\ since_reset.by = "sad_redraw"
    /\ rotate_timer.finished /\ ~prev_timer.finished

====
